---- MODULE Spec2Model ----
(***************************************************************************)
(* rsearch: the inverted index (src/src/lib.rs) and the concurrent build   *)
(* pipeline of the `create` subcommand (src/src/main.rs).                  *)
(*                                                                         *)
(* A Rust String is modelled as its UTF-8 byte sequence (a sequence of     *)
(* numbers 0..255), which is what String::as_bytes exposes and what        *)
(* read_to_string validates and stores.  Document identifiers are the      *)
(* zero-based usize values of the code; a document with identifier k is    *)
(* element k+1 of the (one-based) TLA+ sequence `docs`.                    *)
(***************************************************************************)
EXTENDS Integers, Sequences, FiniteSets, Bags, TLC

(***************************************************************************)
(* Bounds of the model.                                                    *)
(***************************************************************************)
MaxDocs == 3
MaxInputDocs == 2
MaxPaths == 3
NumWorkers == 2

(***************************************************************************)
(* Wire widths.  U16Limit is 2^16, the first value u16::try_from rejects;  *)
(* u32::try_from rejects from 2^32 = U16Limit * U16Limit on, a number      *)
(* above the integers TLC computes with.  A usize value is therefore held  *)
(* as [hi, lo], standing for hi * 2^16 + lo with lo < 2^16, and the range  *)
(* tests and the byte encodings work on that form.                         *)
(***************************************************************************)
U16Limit == 65536

\* A length or identifier of the model (a TLA+ number) as a usize value.
usize(n) == [ hi |-> n \div U16Limit, lo |-> n % U16Limit ]

\* The unchecked cast `v as u32`, which accepts every value.
fits_unchecked(v) == TRUE

\* u16::try_from(v).is_ok() and u32::try_from(v).is_ok()
fits_u16(v) == v.hi = 0
fits_u32(v) == v.hi < U16Limit

(***************************************************************************)
(* Text used as input.  Letters: a=97 b=98 A=65 B=66, space=32,            *)
(* E-acute (upper) = C3 89, e-acute (lower) = C3 A9.                       *)
(***************************************************************************)
Contents ==
    { <<>>,                       \* ""
      <<97>>,                     \* "a"
      <<65, 32, 98>>,             \* "A b"
      <<98, 32, 97, 32, 98>>,     \* "b a b"
      <<97, 32, 65>>,             \* "a A"
      <<195, 137>> }              \* "É"

Queries ==
    { <<>>,                       \* ""
      <<97>>,                     \* "a"
      <<97, 32, 97>>,             \* "a a"
      <<66>>,                     \* "B"
      <<97, 32, 98>>,             \* "a b"
      <<98, 32, 97>>,             \* "b a"
      <<99>>,                     \* "c"   (in no document)
      <<195, 137, 32, 99>> }      \* "É c"

(***************************************************************************)
(* str::to_lowercase on the UTF-8 bytes: ASCII A..Z and the two-byte       *)
(* Latin-1 capitals U+00C0..U+00DE (except the multiplication sign U+00D7) *)
(* map to the letter 32 code points above; every other character of the    *)
(* alphabet used here is unchanged.                                        *)
(***************************************************************************)
RECURSIVE to_lowercase(_)
to_lowercase(s) ==
    IF s = <<>> THEN <<>>
    ELSE IF s[1] >= 65 /\ s[1] <= 90
         THEN <<s[1] + 32>> \o to_lowercase(Tail(s))
    ELSE IF s[1] = 195 /\ Len(s) >= 2 /\ s[2] >= 128 /\ s[2] <= 158 /\ s[2] # 151
         THEN <<195, s[2] + 32>> \o to_lowercase(SubSeq(s, 3, Len(s)))
    ELSE <<s[1]>> \o to_lowercase(Tail(s))

(***************************************************************************)
(* UnicodeSegmentation::unicode_words for text made of letters, digits and *)
(* spaces: the maximal runs of non-space characters, in order.             *)
(***************************************************************************)
RECURSIVE SplitWords(_, _, _)
SplitWords(s, cur, acc) ==
    IF s = <<>> THEN (IF cur = <<>> THEN acc ELSE Append(acc, cur))
    ELSE IF s[1] = 32
         THEN SplitWords(Tail(s), <<>>, IF cur = <<>> THEN acc ELSE Append(acc, cur))
    ELSE SplitWords(Tail(s), Append(cur, s[1]), acc)

unicode_words(s) == SplitWords(s, <<>>, <<>>)

(***************************************************************************)
(* Itertools::unique: keeps the first occurrence of each element.          *)
(***************************************************************************)
RECURSIVE UniqueFrom(_, _)
UniqueFrom(s, acc) ==
    IF s = <<>> THEN acc
    ELSE IF \E i \in 1..Len(acc) : acc[i] = s[1]
         THEN UniqueFrom(Tail(s), acc)
    ELSE UniqueFrom(Tail(s), Append(acc, s[1]))

keep_all(s) == s

unique(s) == UniqueFrom(s, <<>>)

Range(s) == { s[i] : i \in 1..Len(s) }

(***************************************************************************)
(* analyze: the words of the content, each lowercased, collected into a    *)
(* HashSet; the content is kept verbatim.                                  *)
(***************************************************************************)
analyze(content) ==
    LET w == unicode_words(content)
    IN  [ terms   |-> { to_lowercase(w[i]) : i \in 1..Len(w) },
          content |-> content ]

(***************************************************************************)
(* IndexWriter::default and IndexWriter::add on a writer value             *)
(* [docs, postings].  postings is a function from terms to id lists (the   *)
(* HashMap); each term of the document touches only its own list, so the   *)
(* HashSet's iteration order does not show in the result.                  *)
(***************************************************************************)
EmptyWriter == [ docs |-> <<>>, postings |-> [ t \in {} |-> <<>> ] ]

add_wrong_id(w, doc) ==
    LET doc_id == Len(w.docs) + 1
    IN  [ docs     |-> Append(w.docs, doc.content),
          postings |-> [ t \in (DOMAIN w.postings) \cup doc.terms |->
                           IF t \in doc.terms
                           THEN Append(IF t \in DOMAIN w.postings
                                       THEN w.postings[t] ELSE <<>>, doc_id)
                           ELSE w.postings[t] ] ]

add_push_front(w, doc) ==
    LET doc_id == Len(w.docs)
    IN  [ docs     |-> Append(w.docs, doc.content),
          postings |-> [ t \in (DOMAIN w.postings) \cup doc.terms |->
                           IF t \in doc.terms
                           THEN <<doc_id>> \o (IF t \in DOMAIN w.postings
                                               THEN w.postings[t] ELSE <<>>)
                           ELSE w.postings[t] ] ]

RECURSIVE Repeat(_, _)
Repeat(x, n) == IF n = 0 THEN <<>> ELSE <<x>> \o Repeat(x, n - 1)

\* add pushing the id once for every word of the content that gives the term
add_per_occurrence(w, doc) ==
    LET doc_id == Len(w.docs)
        words  == unicode_words(doc.content)
        times(t) == Cardinality({ i \in 1..Len(words) : to_lowercase(words[i]) = t })
    IN  [ docs     |-> Append(w.docs, doc.content),
          postings |-> [ t \in (DOMAIN w.postings) \cup doc.terms |->
                           IF t \in doc.terms
                           THEN (IF t \in DOMAIN w.postings THEN w.postings[t] ELSE <<>>)
                                \o Repeat(doc_id, times(t))
                           ELSE w.postings[t] ] ]

\* add starting a fresh list for each term of the document
add_replace_list(w, doc) ==
    LET doc_id == Len(w.docs)
    IN  [ docs     |-> Append(w.docs, doc.content),
          postings |-> [ t \in (DOMAIN w.postings) \cup doc.terms |->
                           IF t \in doc.terms
                           THEN << doc_id >>
                           ELSE w.postings[t] ] ]

add(w, doc) ==
    LET doc_id == Len(w.docs)
    IN  [ docs     |-> Append(w.docs, doc.content),
          postings |-> [ t \in (DOMAIN w.postings) \cup doc.terms |->
                           IF t \in doc.terms
                           THEN Append(IF t \in DOMAIN w.postings
                                       THEN w.postings[t] ELSE <<>>, doc_id)
                           ELSE w.postings[t] ] ]

(***************************************************************************)
(* IndexWriter::write.  The result is the Result of the call together with *)
(* the bytes that reached the sink (an in-memory sink, as in the tests,    *)
(* whose write_all does not fail; on an early error return the BufWriter   *)
(* still hands the bytes buffered so far to the sink when it is dropped).   *)
(***************************************************************************)
WOk(b) == [ status |-> "ok", bytes |-> b, err |-> "none" ]
WErr(e) == [ status |-> "err", bytes |-> <<>>, err |-> e ]

\* The `?` operator: run `next` only after `r` succeeded.
AndThen(r, next) ==
    IF r.status = "ok"
    THEN [ status |-> next.status, bytes |-> r.bytes \o next.bytes, err |-> next.err ]
    ELSE r

\* The value v (a u32 after the checked conversion) as four bytes.
to_le_bytes_u32(v) ==
    << v.lo % 256, (v.lo \div 256) % 256, v.hi % 256, (v.hi \div 256) % 256 >>

to_be_bytes_u32(v) ==
    << (v.hi \div 256) % 256, v.hi % 256, (v.lo \div 256) % 256, v.lo % 256 >>

to_be_bytes_u16(v) == << (v.lo \div 256) % 256, v.lo % 256 >>

\* u32::try_from(v).context(err)?, then write_all of the big-endian bytes.
try_write_u32(v, err) ==
    IF fits_u32(v) THEN WOk(to_be_bytes_u32(v)) ELSE WErr(err)

\* u16::try_from(v).context(err)?, then write_all of the big-endian bytes.
try_write_u16(v, err) ==
    IF fits_u16(v) THEN WOk(to_be_bytes_u16(v)) ELSE WErr(err)

write_u32(n, err) == try_write_u32(usize(n), err)

write_u16(n, err) == try_write_u16(usize(n), err)

RECURSIVE write_doc_ids(_)
write_doc_ids(doc_ids) ==
    IF doc_ids = <<>> THEN WOk(<<>>)
    ELSE AndThen(write_u32(doc_ids[1], "UnableToDownCastDocId"),
                 write_doc_ids(Tail(doc_ids)))

\* write_term with the id count written before the term
write_term_count_first(term, doc_ids) ==
    AndThen(write_u32(Len(doc_ids), "UnableToDownCastNumberOfDocIds"),
    AndThen(write_u16(Len(term), "UnableToDownCastTermLength"),
    AndThen(WOk(term),
            write_doc_ids(doc_ids))))

write_term(term, doc_ids) ==
    AndThen(write_u16(Len(term), "UnableToDownCastTermLength"),
    AndThen(WOk(term),
    AndThen(write_u32(Len(doc_ids), "UnableToDownCastNumberOfDocIds"),
            write_doc_ids(doc_ids))))

\* `order` is the order in which the HashMap hands out its entries.
RECURSIVE write_postings(_, _)
write_postings(p, order) ==
    IF order = <<>> THEN WOk(<<>>)
    ELSE AndThen(write_term(order[1], p[order[1]]),
                 write_postings(p, Tail(order)))

RECURSIVE write_docs(_)
write_docs(d) ==
    IF d = <<>> THEN WOk(<<>>)
    ELSE AndThen(write_u32(Len(d[1]), "UnableToDownCastDocLength"),
         AndThen(WOk(d[1]),
                 write_docs(Tail(d))))

write(w, order) ==
    AndThen(write_u32(Cardinality(DOMAIN w.postings), "UnableToDownCastPostingsLength"),
    AndThen(write_postings(w.postings, order),
    AndThen(write_u32(Len(w.docs), "UnableToDownCastNumberOfDocs"),
            write_docs(w.docs))))

\* The iteration orders a HashMap with key set S can have.
Orders(S) ==
    { o \in [ 1..Cardinality(S) -> S ] :
        \A i, j \in 1..Cardinality(S) : i # j => o[i] # o[j] }

(***************************************************************************)
(* Index::read.  `pos` counts the bytes consumed so far.                   *)
(***************************************************************************)
NA == 0 - 1

\* read_exact into a 4-byte buffer, then u32::from_be_bytes.
read_u32(bytes, pos) ==
    IF pos + 4 <= Len(bytes)
    THEN [ ok |-> TRUE, pos |-> pos + 4,
           val |-> bytes[pos + 1] * 16777216 + bytes[pos + 2] * 65536
                   + bytes[pos + 3] * 256 + bytes[pos + 4] ]
    ELSE [ ok |-> FALSE, pos |-> pos, val |-> 0 ]

\* read_exact into a 2-byte buffer, then u16::from_be_bytes.
read_u16(bytes, pos) ==
    IF pos + 2 <= Len(bytes)
    THEN [ ok |-> TRUE, pos |-> pos + 2,
           val |-> bytes[pos + 1] * 256 + bytes[pos + 2] ]
    ELSE [ ok |-> FALSE, pos |-> pos, val |-> 0 ]

IsCont(b) == b >= 128 /\ b <= 191

\* core::str::from_utf8, as read_to_string applies it to the bytes it read.
RECURSIVE valid_utf8(_)
valid_utf8(b) ==
    IF b = <<>> THEN TRUE
    ELSE IF b[1] < 128 THEN valid_utf8(Tail(b))
    ELSE IF b[1] >= 194 /\ b[1] <= 223
         THEN Len(b) >= 2 /\ IsCont(b[2]) /\ valid_utf8(SubSeq(b, 3, Len(b)))
    ELSE IF b[1] >= 224 /\ b[1] <= 239
         THEN /\ Len(b) >= 3
              /\ IsCont(b[2]) /\ IsCont(b[3])
              /\ (b[1] = 224 => b[2] >= 160)
              /\ (b[1] = 237 => b[2] <= 159)
              /\ valid_utf8(SubSeq(b, 4, Len(b)))
    ELSE IF b[1] >= 240 /\ b[1] <= 244
         THEN /\ Len(b) >= 4
              /\ IsCont(b[2]) /\ IsCont(b[3]) /\ IsCont(b[4])
              /\ (b[1] = 240 => b[2] >= 144)
              /\ (b[1] = 244 => b[2] <= 143)
              /\ valid_utf8(SubSeq(b, 5, Len(b)))
    ELSE FALSE

\* reader.by_ref().take(size).read_to_string(&mut s): reads until `size`
\* bytes were taken or the source is at its end, whichever comes first, and
\* fails only when the bytes it got are not UTF-8.
take_read_to_string(bytes, pos, size) ==
    LET rest  == Len(bytes) - pos
        n     == IF rest < size THEN rest ELSE size
        chunk == SubSeq(bytes, pos + 1, pos + n)
    IN  IF valid_utf8(chunk)
        THEN [ ok |-> TRUE, pos |-> pos + n, val |-> chunk ]
        ELSE [ ok |-> FALSE, pos |-> pos, val |-> <<>> ]

RErr(kind, term_id, term, doc_index, doc_id) ==
    [ status |-> "err", kind |-> kind, term_id |-> term_id, term |-> term,
      doc_index |-> doc_index, doc_id |-> doc_id ]

RECURSIVE read_doc_ids(_, _, _, _, _)
read_doc_ids(bytes, pos, doc_index, num_doc_ids, doc_ids) ==
    IF doc_index = num_doc_ids
    THEN [ ok |-> TRUE, pos |-> pos, val |-> doc_ids, doc_index |-> doc_index ]
    ELSE LET d == read_u32(bytes, pos)
         IN  IF ~d.ok
             THEN [ ok |-> FALSE, pos |-> pos, val |-> doc_ids, doc_index |-> doc_index ]
             ELSE read_doc_ids(bytes, d.pos, doc_index + 1, num_doc_ids,
                               Append(doc_ids, d.val))

\* HashMap::insert: a later entry for the same term replaces the earlier one.
insert(p, term, doc_ids) ==
    [ t \in (DOMAIN p) \cup {term} |-> IF t = term THEN doc_ids ELSE p[t] ]

RECURSIVE read_terms(_, _, _, _, _)
read_terms(bytes, pos, term_id, num_terms, p) ==
    IF term_id = num_terms
    THEN [ status |-> "ok", pos |-> pos, postings |-> p ]
    ELSE
    LET ts == read_u16(bytes, pos) IN
    IF ~ts.ok THEN RErr("UnableToReadTermSize", term_id, <<>>, NA, NA) ELSE
    LET tm == take_read_to_string(bytes, ts.pos, ts.val) IN
    IF ~tm.ok THEN RErr("UnableToReadTerm", term_id, <<>>, NA, NA) ELSE
    LET nd == read_u32(bytes, tm.pos) IN
    IF ~nd.ok THEN RErr("UnableToReadNumberOfDocIds", term_id, tm.val, NA, NA) ELSE
    LET ids == read_doc_ids(bytes, nd.pos, 0, nd.val, <<>>) IN
    IF ~ids.ok THEN RErr("UnableToReadDocId", term_id, tm.val, ids.doc_index, NA) ELSE
    read_terms(bytes, ids.pos, term_id + 1, num_terms, insert(p, tm.val, ids.val))

RECURSIVE read_documents(_, _, _, _, _)
read_documents(bytes, pos, doc_id, num_docs, d) ==
    IF doc_id = num_docs
    THEN [ status |-> "ok", pos |-> pos, docs |-> d ]
    ELSE
    LET cs == read_u32(bytes, pos) IN
    IF ~cs.ok THEN RErr("UnableToReadDocSize", NA, <<>>, NA, doc_id) ELSE
    LET ct == take_read_to_string(bytes, cs.pos, cs.val) IN
    IF ~ct.ok THEN RErr("UnableToReadDocContent", NA, <<>>, NA, doc_id) ELSE
    read_documents(bytes, ct.pos, doc_id + 1, num_docs, Append(d, ct.val))

read(bytes) ==
    LET nt == read_u32(bytes, 0) IN
    IF ~nt.ok THEN RErr("UnableToReadPostingListSize", NA, <<>>, NA, NA) ELSE
    LET ps == read_terms(bytes, nt.pos, 0, nt.val, [ t \in {} |-> <<>> ]) IN
    IF ps.status # "ok" THEN ps ELSE
    LET nd == read_u32(bytes, ps.pos) IN
    IF ~nd.ok THEN RErr("UnableToReadNumberOfDocs", NA, <<>>, NA, NA) ELSE
    LET ds == read_documents(bytes, nd.pos, 0, nd.val, <<>>) IN
    IF ds.status # "ok" THEN ds ELSE
    [ status |-> "ok", docs |-> ds.docs, postings |-> ps.postings ]

(***************************************************************************)
(* Index::search.  The result lists the identifiers of the documents the   *)
(* returned references point to (a reference &self.docs[id]); indexing     *)
(* past the document list panics.                                          *)
(***************************************************************************)
RECURSIVE flat_map_first_hit(_, _)
flat_map_first_hit(p, toks) ==
    IF toks = <<>> THEN <<>>
    ELSE IF toks[1] \in DOMAIN p THEN p[toks[1]]
    ELSE flat_map_first_hit(p, Tail(toks))

\* the lists of the matching tokens joined from the last token to the first
RECURSIVE flat_map_reversed(_, _)
flat_map_reversed(p, toks) ==
    IF toks = <<>> THEN <<>>
    ELSE flat_map_reversed(p, Tail(toks)) \o (IF toks[1] \in DOMAIN p THEN p[toks[1]] ELSE <<>>)

RECURSIVE flat_map(_, _)
flat_map(p, toks) ==
    IF toks = <<>> THEN <<>>
    ELSE (IF toks[1] \in DOMAIN p THEN p[toks[1]] ELSE <<>>) \o flat_map(p, Tail(toks))

search(idx, query) ==
    LET toks == unique(unicode_words(to_lowercase(query)))
        ids  == unique(flat_map(idx.postings, toks))
    IN  IF \E i \in 1..Len(ids) : ids[i] >= Len(idx.docs)
        THEN [ status |-> "panic", ids |-> <<>> ]
        ELSE [ status |-> "ok", ids |-> ids ]

(***************************************************************************)
(* State.                                                                  *)
(*   docs, postings   the IndexWriter's fields                             *)
(*   moved            the writer was consumed by Index::from               *)
(*   buf, wres        the sink's bytes and the Result of IndexWriter::write *)
(*   index            the Index the caller holds (from Index::from or      *)
(*                    from a successful Index::read)                       *)
(*   rres             the Result of the last Index::read                   *)
(*   sres             the outcome of the last Index::search                *)
(*   call             the last library call and its argument               *)
(* and, for the build pipeline of main.rs:                                 *)
(*   files            what reading and parsing each path yields            *)
(*   paths, content_queue, analyzed_queue   the three mutex-guarded lists  *)
(*   wpc, wlocal      each worker's position and the value it holds        *)
(*   mainpc, spawned, joined   the main thread's position and loop counters *)
(*   claims           how many times each path was popped from `paths`     *)
(*   mutex            for each of the three mutexes the worker holding it  *)
(***************************************************************************)
VARIABLES docs, postings, moved, buf, wres, index, rres, sres, call,
          files, paths, content_queue, analyzed_queue, wpc, wlocal,
          mainpc, spawned, joined, claims, mutex

libVars  == << docs, postings, moved, buf, wres, index, rres, sres, call >>
pipeVars == << files, paths, content_queue, analyzed_queue, wpc, wlocal,
               mainpc, spawned, joined, claims, mutex >>
vars     == << docs, postings, moved, buf, wres, index, rres, sres, call,
               files, paths, content_queue, analyzed_queue, wpc, wlocal,
               mainpc, spawned, joined, claims, mutex >>

None == [ status |-> "none" ]

writer == [ docs |-> docs, postings |-> postings ]

\* IndexWriter::default(), nothing written, read or searched yet.
LibInit ==
    /\ docs = <<>>
    /\ postings = [ t \in {} |-> <<>> ]
    /\ moved = FALSE
    /\ buf = <<>>
    /\ wres = None
    /\ index = None
    /\ rres = None
    /\ sres = None
    /\ call = [ op |-> "none", arg |-> <<>> ]

\* No build is running.
PipeIdle ==
    /\ files = <<>>
    /\ paths = <<>>
    /\ content_queue = <<>>
    /\ analyzed_queue = <<>>
    /\ wpc = <<>>
    /\ wlocal = <<>>
    /\ mainpc = "idle"
    /\ spawned = 0
    /\ joined = 0
    /\ claims = <<>>
    /\ mutex = <<>>

(***************************************************************************)
(* The library calls.  As in main.rs and the tests, documents are added    *)
(* before the writer is written or converted.                              *)
(***************************************************************************)
\* idx.add(analyze(content))
Add(content) ==
    /\ ~moved
    /\ wres.status = "none"
    /\ Len(docs) < MaxDocs
    /\ LET w == add(writer, analyze(content))
       IN  /\ docs' = w.docs
           /\ postings' = w.postings
    /\ call' = [ op |-> "add", arg |-> content ]
    /\ UNCHANGED << moved, buf, wres, index, rres, sres >>
    /\ UNCHANGED pipeVars

\* index.write(&mut buf), the HashMap iterating in any order
Write ==
    /\ ~moved
    /\ wres.status = "none"
    /\ \E order \in Orders(DOMAIN postings) :
         LET r == write(writer, order)
         IN  /\ buf' = r.bytes
             /\ wres' = [ status |-> r.status, err |-> r.err ]
    /\ call' = [ op |-> "write", arg |-> <<>> ]
    /\ UNCHANGED << docs, postings, moved, index, rres, sres >>
    /\ UNCHANGED pipeVars

\* Index::from(writer)
From ==
    /\ ~moved
    /\ moved' = TRUE
    /\ index' = [ status |-> "from", docs |-> docs, postings |-> postings ]
    /\ call' = [ op |-> "from", arg |-> <<>> ]
    /\ UNCHANGED << docs, postings, buf, wres, rres, sres >>
    /\ UNCHANGED pipeVars

\* Index::read(io::Cursor::new(&buf))
Read ==
    /\ wres.status = "ok"
    /\ LET r == read(buf)
       IN  IF r.status = "ok"
           THEN /\ rres' = [ status |-> "ok" ]
                /\ index' = [ status |-> "read", docs |-> r.docs,
                              postings |-> r.postings ]
           ELSE /\ rres' = r
                /\ index' = index
    /\ call' = [ op |-> "read", arg |-> <<>> ]
    /\ UNCHANGED << docs, postings, moved, buf, wres, sres >>
    /\ UNCHANGED pipeVars

\* index.search(query)
Search(query) ==
    /\ index.status # "none"
    /\ sres' = search(index, query)
    /\ call' = [ op |-> "search", arg |-> query ]
    /\ UNCHANGED << docs, postings, moved, buf, wres, index, rres >>
    /\ UNCHANGED pipeVars

Init == LibInit /\ PipeIdle

Next ==
    \/ \E c \in Contents : Add(c)
    \/ Write
    \/ From
    \/ Read
    \/ \E q \in Queries : Search(q)

Spec == Init /\ [][Next]_vars

(***************************************************************************)
(* Decoding damaged files (SpecRead).  The inputs are the encodings of the *)
(* writers built from at most MaxInputDocs ASCII documents, each cut at    *)
(* every length or with one byte replaced.  Replacement bytes are below    *)
(* 128, except 255 put in place of a letter, so that every four-byte field *)
(* stays within the integers TLC computes with.                            *)
(***************************************************************************)
AsciiContents == { c \in Contents : \A i \in 1..Len(c) : c[i] < 128 }

RECURSIVE WritersUpTo(_)
WritersUpTo(n) ==
    IF n = 0 THEN { EmptyWriter }
    ELSE LET prev == WritersUpTo(n - 1)
         IN  prev \cup { add(w, analyze(c)) : w \in prev, c \in AsciiContents }

Encodings ==
    UNION { { write(w, o).bytes : o \in Orders(DOMAIN w.postings) } :
            w \in WritersUpTo(MaxInputDocs) }

ReplacementBytes == { 0, 1, 2 }

InputBytes ==
    UNION { { SubSeq(e, 1, n) : n \in 0..Len(e) }
            \cup { [ e EXCEPT ![i] = b ] : i \in 1..Len(e), b \in ReplacementBytes }
            \cup { [ e EXCEPT ![i] = 255 ] : i \in { j \in 1..Len(e) : e[j] >= 65 } }
          : e \in Encodings }

InitRead ==
    /\ docs = <<>>
    /\ postings = [ t \in {} |-> <<>> ]
    /\ moved = FALSE
    /\ buf \in InputBytes
    /\ wres = [ status |-> "ok", err |-> "none" ]
    /\ index = None
    /\ rres = None
    /\ sres = None
    /\ call = [ op |-> "none", arg |-> <<>> ]
    /\ PipeIdle

NextRead ==
    \/ Read
    \/ \E q \in Queries : Search(q)

SpecRead == InitRead /\ [][NextRead]_vars

(***************************************************************************)
(* The build pipeline of `create` (SpecBuild).                             *)
(***************************************************************************)
Workers == 1..NumWorkers

BuildContents == { <<97>>, <<65, 32, 98>> }

\* What a path holds: a file that cannot be read, a file the mail parser
\* rejects, or a mail with the given (trimmed) body.
FileStates ==
    { [ kind |-> "read_fail", content |-> <<>> ],
      [ kind |-> "parse_fail", content |-> <<>> ] }
    \cup { [ kind |-> "ok", content |-> c ] : c \in BuildContents }

\* mail_content: fs::read(path).unwrap() panics when the file cannot be
\* read; a parse failure is returned as Err.
mail_content(file) ==
    IF file.kind = "read_fail" THEN [ status |-> "panic", content |-> <<>> ]
    ELSE IF file.kind = "parse_fail" THEN [ status |-> "err", content |-> <<>> ]
    ELSE [ status |-> "ok", content |-> file.content ]

\* VecDeque::push_back
push_back_replacing(q, x) == << x >>

push_back(q, x) == Append(q, x)

\* VecDeque::pop_front on a non-empty queue: what is left
pop_front_rest(q) == Tail(q)

\* Vec::pop on a non-empty vector: what is left
pop_rest(v) == SubSeq(v, 1, Len(v) - 1)

Nothing == [ path |-> 0, content |-> <<>> ]

\* the three Arc<Mutex<..>> of the build
Mutexes == { "paths", "content_queue", "analyzed_queue" }

\* no thread holds the mutex (0), else the worker that holds it
Unlocked == [ m \in Mutexes |-> 0 ]

\* the mutex locked by the statement at each position of the worker
Needs ==
    [ pc \in { "claim", "push", "take", "analyze" } |->
        IF pc = "claim" THEN "paths"
        ELSE IF pc = "analyze" THEN "analyzed_queue"
        ELSE "content_queue" ]

InitBuild ==
    /\ LibInit
    /\ files \in UNION { [ 1..n -> FileStates ] : n \in 0..MaxPaths }
    /\ paths = <<>>
    /\ content_queue = <<>>
    /\ analyzed_queue = <<>>
    /\ wpc = [ w \in Workers |-> "unspawned" ]
    /\ wlocal = [ w \in Workers |-> Nothing ]
    /\ mainpc = "enumerate"
    /\ spawned = 0
    /\ joined = 0
    /\ claims = [ p \in {} |-> 0 ]
    /\ mutex = Unlocked

Running == mainpc \notin { "aborted", "done" }

\* main: the walker's paths are collected before any thread is spawned
Enumerate ==
    /\ mainpc = "enumerate"
    /\ paths' = [ i \in 1..Len(files) |-> i ]
    /\ claims' = [ i \in 1..Len(files) |-> 0 ]
    /\ mainpc' = "spawn"
    /\ UNCHANGED << files, content_queue, analyzed_queue, wpc, wlocal, spawned, joined, mutex >>
    /\ UNCHANGED libVars

\* main: one turn of `for _ in 0..20 { handles.push(thread::spawn(..)) }`
Spawn ==
    /\ mainpc = "spawn"
    /\ spawned' = spawned + 1
    /\ wpc' = [ wpc EXCEPT ![spawned + 1] = "claim" ]
    /\ mainpc' = IF spawned + 1 = NumWorkers THEN "join" ELSE "spawn"
    /\ UNCHANGED << files, paths, content_queue, analyzed_queue, wlocal, joined, claims, mutex >>
    /\ UNCHANGED libVars

\* worker: `.lock().unwrap()` on the mutex the worker's next statement
\* needs; it returns when the mutex is free.  The guard lives until the end
\* of that statement.
Lock(w) ==
    /\ Running
    /\ wpc[w] \in DOMAIN Needs
    /\ mutex[Needs[wpc[w]]] = 0
    /\ mutex' = [ mutex EXCEPT ![Needs[wpc[w]]] = w ]
    /\ UNCHANGED << files, paths, content_queue, analyzed_queue, wpc, wlocal,
                    mainpc, spawned, joined, claims >>
    /\ UNCHANGED libVars

\* worker: `paths.lock().unwrap().pop()`, the head of the first loop
Claim(w) ==
    /\ Running
    /\ wpc[w] = "claim"
    /\ mutex["paths"] = w
    /\ mutex' = [ mutex EXCEPT !["paths"] = 0 ]
    /\ IF paths = <<>>
       THEN /\ wpc' = [ wpc EXCEPT ![w] = "take" ]
            /\ UNCHANGED << paths, wlocal, claims >>
       ELSE LET path == paths[Len(paths)]
            IN  /\ paths' = pop_rest(paths)
                /\ wlocal' = [ wlocal EXCEPT ![w] = [ path |-> path, content |-> <<>> ] ]
                /\ claims' = [ claims EXCEPT ![path] = @ + 1 ]
                /\ wpc' = [ wpc EXCEPT ![w] = "extract" ]
    /\ UNCHANGED << files, content_queue, analyzed_queue, mainpc, spawned, joined >>
    /\ UNCHANGED libVars

\* worker: `if let Ok(content) = mail_content(&path)`
Extract(w) ==
    /\ Running
    /\ wpc[w] = "extract"
    /\ LET r == mail_content(files[wlocal[w].path])
       IN  IF r.status = "panic"
           THEN /\ wpc' = [ wpc EXCEPT ![w] = "panicked" ]
                /\ wlocal' = [ wlocal EXCEPT ![w] = Nothing ]
           ELSE IF r.status = "err"
           THEN /\ wpc' = [ wpc EXCEPT ![w] = "claim" ]
                /\ wlocal' = [ wlocal EXCEPT ![w] = Nothing ]
           ELSE /\ wpc' = [ wpc EXCEPT ![w] = "push" ]
                /\ wlocal' = [ wlocal EXCEPT ![w] = [ path |-> 0, content |-> r.content ] ]
    /\ UNCHANGED << files, paths, content_queue, analyzed_queue, mainpc, spawned, joined, claims, mutex >>
    /\ UNCHANGED libVars

\* a worker that ends its thread after its first push
PushContent_then_exit(w) ==
    /\ Running
    /\ wpc[w] = "push"
    /\ mutex["content_queue"] = w
    /\ mutex' = [ mutex EXCEPT !["content_queue"] = 0 ]
    /\ content_queue' = push_back(content_queue, wlocal[w].content)
    /\ wlocal' = [ wlocal EXCEPT ![w] = Nothing ]
    /\ wpc' = [ wpc EXCEPT ![w] = "done" ]
    /\ UNCHANGED << files, paths, analyzed_queue, mainpc, spawned, joined, claims >>
    /\ UNCHANGED libVars

\* worker: `content_queue.lock().unwrap().push_back(content)`
PushContent(w) ==
    /\ Running
    /\ wpc[w] = "push"
    /\ mutex["content_queue"] = w
    /\ mutex' = [ mutex EXCEPT !["content_queue"] = 0 ]
    /\ content_queue' = push_back(content_queue, wlocal[w].content)
    /\ wlocal' = [ wlocal EXCEPT ![w] = Nothing ]
    /\ wpc' = [ wpc EXCEPT ![w] = "claim" ]
    /\ UNCHANGED << files, paths, analyzed_queue, mainpc, spawned, joined, claims >>
    /\ UNCHANGED libVars

\* the pop of the second loop with its guard kept alive after the statement
Take_keep_guard(w) ==
    /\ Running
    /\ wpc[w] = "take"
    /\ mutex["content_queue"] = w
    /\ mutex' = mutex
    /\ IF content_queue = <<>>
       THEN /\ wpc' = [ wpc EXCEPT ![w] = "done" ]
            /\ UNCHANGED << content_queue, wlocal >>
       ELSE /\ wlocal' = [ wlocal EXCEPT ![w] = [ path |-> 0, content |-> content_queue[1] ] ]
            /\ content_queue' = pop_front_rest(content_queue)
            /\ wpc' = [ wpc EXCEPT ![w] = "analyze" ]
    /\ UNCHANGED << files, paths, analyzed_queue, mainpc, spawned, joined, claims >>
    /\ UNCHANGED libVars

\* worker: `content_queue.lock().unwrap().pop_front()`, the head of the
\* second loop; None ends the thread
Take(w) ==
    /\ Running
    /\ wpc[w] = "take"
    /\ mutex["content_queue"] = w
    /\ mutex' = [ mutex EXCEPT !["content_queue"] = 0 ]
    /\ IF content_queue = <<>>
       THEN /\ wpc' = [ wpc EXCEPT ![w] = "done" ]
            /\ UNCHANGED << content_queue, wlocal >>
       ELSE /\ wlocal' = [ wlocal EXCEPT ![w] = [ path |-> 0, content |-> content_queue[1] ] ]
            /\ content_queue' = pop_front_rest(content_queue)
            /\ wpc' = [ wpc EXCEPT ![w] = "analyze" ]
    /\ UNCHANGED << files, paths, analyzed_queue, mainpc, spawned, joined, claims >>
    /\ UNCHANGED libVars

\* worker: `rsearch::analyze(content)`, then
\* `analyzed_queue.lock().unwrap().push_back(analyzed)`
Analyze(w) ==
    /\ Running
    /\ wpc[w] = "analyze"
    /\ mutex["analyzed_queue"] = w
    /\ mutex' = [ mutex EXCEPT !["analyzed_queue"] = 0 ]
    /\ analyzed_queue' = push_back(analyzed_queue, analyze(wlocal[w].content))
    /\ wlocal' = [ wlocal EXCEPT ![w] = Nothing ]
    /\ wpc' = [ wpc EXCEPT ![w] = "take" ]
    /\ UNCHANGED << files, paths, content_queue, mainpc, spawned, joined, claims >>
    /\ UNCHANGED libVars

\* a join that returns at once, whatever the thread is doing
Join_no_wait ==
    /\ mainpc = "join"
    /\ joined' = joined + 1
    /\ mainpc' = IF joined + 1 = NumWorkers THEN "accumulate" ELSE "join"
    /\ UNCHANGED << files, paths, content_queue, analyzed_queue, wpc, wlocal, spawned, claims, mutex >>
    /\ UNCHANGED libVars

\* main: `handle.join().expect("Join failed")` on the next handle; it
\* returns once that thread has ended and panics when the thread panicked
Join ==
    /\ mainpc = "join"
    /\ wpc[joined + 1] \in { "done", "panicked" }
    /\ IF wpc[joined + 1] = "panicked"
       THEN /\ mainpc' = "aborted"
            /\ joined' = joined
       ELSE /\ joined' = joined + 1
            /\ mainpc' = IF joined + 1 = NumWorkers THEN "accumulate" ELSE "join"
    /\ UNCHANGED << files, paths, content_queue, analyzed_queue, wpc, wlocal, spawned, claims, mutex >>
    /\ UNCHANGED libVars

\* main: one turn of `for analyzed in analyzed_queue { index.add(analyzed) }`
Accumulate ==
    /\ mainpc = "accumulate"
    /\ IF analyzed_queue = <<>>
       THEN /\ mainpc' = "persist"
            /\ UNCHANGED << docs, postings, analyzed_queue >>
       ELSE LET w == add(writer, analyzed_queue[1])
            IN  /\ docs' = w.docs
                /\ postings' = w.postings
                /\ analyzed_queue' = pop_front_rest(analyzed_queue)
                /\ mainpc' = mainpc
    /\ UNCHANGED << moved, buf, wres, index, rres, sres, call >>
    /\ UNCHANGED << files, paths, content_queue, wpc, wlocal, spawned, joined, claims, mutex >>

\* main: `index.write(output_file).expect("Unable to write file")`
Persist ==
    /\ mainpc = "persist"
    /\ \E order \in Orders(DOMAIN postings) :
         LET r == write(writer, order)
         IN  /\ buf' = r.bytes
             /\ wres' = [ status |-> r.status, err |-> r.err ]
             /\ mainpc' = IF r.status = "ok" THEN "done" ELSE "aborted"
    /\ UNCHANGED << docs, postings, moved, index, rres, sres, call >>
    /\ UNCHANGED << files, paths, content_queue, analyzed_queue, wpc, wlocal, spawned, joined, claims, mutex >>

NextBuild ==
    \/ Enumerate
    \/ Spawn
    \/ \E w \in Workers : Lock(w)
    \/ \E w \in Workers : Claim(w)
    \/ \E w \in Workers : Extract(w)
    \/ \E w \in Workers : PushContent(w)
    \/ \E w \in Workers : Take(w)
    \/ \E w \in Workers : Analyze(w)
    \/ Join
    \/ Accumulate
    \/ Persist

SpecBuild == InitBuild /\ [][NextBuild]_vars

\* the steps of the main thread and of one worker thread
MainNext == Enumerate \/ Spawn \/ Join \/ Accumulate \/ Persist

WorkerNext(w) ==
    Lock(w) \/ Claim(w) \/ Extract(w) \/ PushContent(w) \/ Take(w) \/ Analyze(w)

\* The build under a fair scheduler: a thread that can keep running is
\* eventually run.  The mutexes themselves are not fair.
FairBuild ==
    /\ InitBuild
    /\ [][NextBuild]_vars
    /\ WF_vars(MainNext)
    /\ \A w \in Workers : WF_vars(WorkerNext(w))

(***************************************************************************)
(* Properties of the library calls, checked under Spec.                    *)
(***************************************************************************)
QueryTerms(query) == analyze(query).terms

\* The identifiers of the documents of idx that contain one of the terms.
Matching(idx, terms) ==
    { k \in 0..(Len(idx.docs) - 1) : analyze(idx.docs[k + 1]).terms \cap terms # {} }

NoDuplicates(s) == \A i, j \in 1..Len(s) : i # j => s[i] # s[j]

Ascending(s) == \A i, j \in 1..Len(s) : i < j => s[i] < s[j]

\* C1: round trip.  Reading the bytes a successful write produced succeeds
\* and gives an Index with the writer's document sequence and the writer's
\* term-to-id-list mapping.
C1_RoundTrip ==
    (call.op = "read" /\ wres.status = "ok") =>
        /\ rres.status = "ok"
        /\ index.status = "read"
        /\ index.docs = docs
        /\ DOMAIN index.postings = DOMAIN postings
        /\ \A t \in DOMAIN postings : index.postings[t] = postings[t]

\* A read of the encoding of three documents with three terms, one of them
\* a non-ASCII term.
C1_Witness ==
    /\ call.op = "read"
    /\ rres.status = "ok"
    /\ Len(docs) = 3
    /\ Cardinality(DOMAIN postings) = 3
    /\ <<195, 169>> \in DOMAIN postings

\* C2: union semantics.  The documents a search returns are exactly the
\* documents whose term set contains at least one normalized query term;
\* terms absent from the index and a query without terms cause no failure
\* and contribute nothing.
C2_UnionSemantics ==
    call.op = "search" =>
        /\ sres.status = "ok"
        /\ Range(sres.ids) = Matching(index, QueryTerms(call.arg))

\* A two-term query, one term absent from the index, that matches two of
\* three documents.
C2_Witness ==
    /\ call.op = "search"
    /\ call.arg = <<195, 137, 32, 99>>
    /\ Len(index.docs) = 3
    /\ Cardinality(Range(sres.ids)) = 2

\* C7: identifiers follow insertion order.  After the k-th add (from 0) the
\* document is at position k and the posting list of each of its terms
\* exists and ends with k.
C7_IdIsInsertionOrder ==
    call.op = "add" =>
        LET k == Len(docs) - 1
        IN  /\ k >= 0
            /\ docs[k + 1] = call.arg
            /\ \A t \in analyze(call.arg).terms :
                 /\ t \in DOMAIN postings
                 /\ postings[t] # <<>>
                 /\ postings[t][Len(postings[t])] = k

\* The third add appended to an existing list and created a new one.
C7_Witness ==
    /\ call.op = "add"
    /\ Len(docs) = 3
    /\ \E t, u \in analyze(call.arg).terms :
         /\ Len(postings[t]) >= 2
         /\ postings[u] = <<2>>

\* C8: a query that matches exactly one term of the index returns the
\* matching documents in ascending identifier (insertion) order.
C8_SingleTermOrder ==
    (call.op = "search" /\ Cardinality(QueryTerms(call.arg) \cap DOMAIN index.postings) = 1) =>
        /\ sres.status = "ok"
        /\ Ascending(sres.ids)
        /\ \A t \in QueryTerms(call.arg) \cap DOMAIN index.postings :
             sres.ids = index.postings[t]

\* A single-term search returning three documents.
C8_Witness ==
    /\ call.op = "search"
    /\ Cardinality(QueryTerms(call.arg) \cap DOMAIN index.postings) = 1
    /\ Len(sres.ids) = 3

\* C9: no document appears twice in a search result, and repeating the
\* query's terms does not change the result.
C9_Dedup ==
    call.op = "search" =>
        /\ NoDuplicates(sres.ids)
        /\ search(index, call.arg \o <<32>> \o call.arg) = sres

\* A search with two distinct matching terms and a document holding both.
C9_Witness ==
    /\ call.op = "search"
    /\ sres.status = "ok"
    /\ Cardinality(QueryTerms(call.arg) \cap DOMAIN index.postings) = 2
    /\ \E k \in Range(sres.ids) :
         QueryTerms(call.arg) \subseteq analyze(index.docs[k + 1]).terms

(***************************************************************************)
(* Properties of Index::read on damaged input, checked under SpecRead.     *)
(***************************************************************************)
\* C3: every Index a successful read returns has all its posting
\* identifiers below the number of documents, and no search on it indexes
\* past the document list (no panic).
C3_ReadKeepsInvariant ==
    /\ index.status = "read" =>
         \A t \in DOMAIN index.postings :
           \A i \in 1..Len(index.postings[t]) :
             index.postings[t][i] < Len(index.docs)
    /\ sres.status # "panic"

\* The wire format walked up to the first term whose declared bytes are not
\* all present: that term's index, or NA when the stream ends elsewhere.
RECURSIVE CutTerm(_, _, _, _)
CutTerm(bytes, pos, term_id, num_terms) ==
    IF term_id = num_terms \/ pos + 2 > Len(bytes) THEN NA
    ELSE LET L == bytes[pos + 1] * 256 + bytes[pos + 2]
             q == pos + 2 + L
         IN  IF q > Len(bytes) THEN term_id
             ELSE IF q + 4 > Len(bytes) THEN NA
             ELSE LET D == bytes[q + 1] * 16777216 + bytes[q + 2] * 65536
                           + bytes[q + 3] * 256 + bytes[q + 4]
                  IN  IF D > Len(bytes) \/ q + 4 + 4 * D > Len(bytes) THEN NA
                      ELSE CutTerm(bytes, q + 4 + 4 * D, term_id + 1, num_terms)

TruncatedTerm(bytes) ==
    IF Len(bytes) < 4 THEN NA
    ELSE CutTerm(bytes, 4,  0, bytes[1] * 16777216 + bytes[2] * 65536
                               + bytes[3] * 256 + bytes[4])

\* C10: when the stream ends inside the declared bytes of a term, read
\* fails with UnableToReadTerm carrying that term's index.
C10_TruncatedTermAttribution ==
    (call.op = "read" /\ TruncatedTerm(buf) # NA) =>
        /\ rres.status = "err"
        /\ rres.kind = "UnableToReadTerm"
        /\ rres.term_id = TruncatedTerm(buf)

(***************************************************************************)
(* Properties of the build pipeline, checked under SpecBuild.              *)
(***************************************************************************)
BagOfSeq(q) ==
    [ x \in Range(q) |-> Cardinality({ i \in 1..Len(q) : q[i] = x }) ]

\* The contents of the enumerated paths whose extraction succeeds.
Extracted ==
    LET ok == SelectSeq(files, LAMBDA f : f.kind = "ok")
    IN  [ i \in 1..Len(ok) |-> ok[i].content ]

ContentsOf(q) == [ i \in 1..Len(q) |-> q[i].content ]

LeftClaimLoop(w) == wpc[w] \in { "take", "analyze", "done", "panicked" }

\* C4: after the join, the documents handed to IndexWriter::add (those
\* added so far and those still waiting in the analyzed queue) are, as a
\* multiset, the extracted contents of the paths whose extraction
\* succeeded: nothing is lost in either queue and nothing is added twice.
C4_AccumulatedExactlyOnce ==
    mainpc \in { "accumulate", "persist", "done" } =>
        BagOfSeq(docs \o ContentsOf(analyzed_queue)) = BagOfSeq(Extracted)

\* A finished build of three paths: two mails with the same body, one file
\* the parser rejects.
C4_Witness ==
    /\ mainpc = "done"
    /\ Len(files) = 3
    /\ \E i \in 1..3 : files[i].kind = "parse_fail"
    /\ Len(docs) = 2
    /\ docs[1] = docs[2]

\* C5: no path is popped twice, and once every worker has left its claim
\* loop the work list is empty and every path was popped exactly once.
C5_ClaimedExactlyOnce ==
    /\ \A p \in DOMAIN claims : claims[p] <= 1
    /\ (mainpc # "enumerate" /\ \A w \in Workers : LeftClaimLoop(w)) =>
         /\ paths = <<>>
         /\ \A p \in DOMAIN claims : claims[p] = 1

\* C6: a path whose read or extraction fails never aborts the build and
\* never ends a worker, and the finished index holds exactly the documents
\* of the other paths.
C6_BestEffort ==
    /\ mainpc # "aborted"
    /\ \A w \in Workers : wpc[w] # "panicked"
    /\ mainpc = "done" => BagOfSeq(docs) = BagOfSeq(Extracted)

\* The position after the postings block, or NA when the stream ends
\* inside it.
RECURSIVE EndOfTerms(_, _, _, _)
EndOfTerms(bytes, pos, term_id, num_terms) ==
    IF term_id = num_terms THEN pos
    ELSE IF pos + 2 > Len(bytes) THEN NA
    ELSE LET L == bytes[pos + 1] * 256 + bytes[pos + 2]
             q == pos + 2 + L
         IN  IF q + 4 > Len(bytes) THEN NA
             ELSE LET D == bytes[q + 1] * 16777216 + bytes[q + 2] * 65536
                           + bytes[q + 3] * 256 + bytes[q + 4]
                  IN  IF D > Len(bytes) \/ q + 4 + 4 * D > Len(bytes) THEN NA
                      ELSE EndOfTerms(bytes, q + 4 + 4 * D, term_id + 1, num_terms)

\* The document block walked up to the first document whose declared
\* content bytes are not all present: its id, or NA.
RECURSIVE CutDoc(_, _, _, _)
CutDoc(bytes, pos, doc_id, num_docs) ==
    IF doc_id = num_docs \/ pos + 4 > Len(bytes) THEN NA
    ELSE LET C == bytes[pos + 1] * 16777216 + bytes[pos + 2] * 65536
                  + bytes[pos + 3] * 256 + bytes[pos + 4]
         IN  IF C > Len(bytes) \/ pos + 4 + C > Len(bytes) THEN doc_id
             ELSE CutDoc(bytes, pos + 4 + C, doc_id + 1, num_docs)

TruncatedDoc(bytes) ==
    IF Len(bytes) < 4 THEN NA
    ELSE LET p == EndOfTerms(bytes, 4, 0, bytes[1] * 16777216 + bytes[2] * 65536
                                          + bytes[3] * 256 + bytes[4])
         IN  IF p = NA \/ p + 4 > Len(bytes) THEN NA
             ELSE CutDoc(bytes, p + 4, 0, bytes[p + 1] * 16777216 + bytes[p + 2] * 65536
                                          + bytes[p + 3] * 256 + bytes[p + 4])

StrictPrefixOfEncoding(bytes) ==
    \E e \in Encodings : Len(bytes) < Len(e) /\ bytes = SubSeq(e, 1, Len(bytes))

\* C11: when the stream ends inside the declared content of a document,
\* read fails with UnableToReadDocContent carrying that document's id; no
\* strict prefix of a valid encoding decodes successfully.
C11_TruncatedContentFails ==
    /\ (call.op = "read" /\ TruncatedDoc(buf) # NA) =>
         /\ rres.status = "err"
         /\ rres.kind = "UnableToReadDocContent"
         /\ rres.doc_id = TruncatedDoc(buf)
    /\ (call.op = "read" /\ StrictPrefixOfEncoding(buf)) => rres.status = "err"

(***************************************************************************)
(* The checked narrowing of IndexWriter::write at the edges of the wire    *)
(* widths (SpecNarrow): each conversion applied to usize values around     *)
(* 2^16 and 2^32, and write itself applied to a writer whose only term is  *)
(* 2^16 - 1 or 2^16 bytes long.                                            *)
(***************************************************************************)
EdgeValues ==
    { [ hi |-> h, lo |-> l ] :
        h \in { 0, 1, 255, 256, U16Limit - 1, U16Limit, U16Limit + 1 },
        l \in { 0, 1, 255, 256, U16Limit - 1 } }

\* The error each u32 conversion of write reports.
U32Fields ==
    { "UnableToDownCastPostingsLength", "UnableToDownCastNumberOfDocIds",
      "UnableToDownCastDocId", "UnableToDownCastNumberOfDocs",
      "UnableToDownCastDocLength" }

LongWord(n) == [ i \in 1..n |-> 97 ]

\* The writer after one add of a document that is a single word of n letters.
LongTermWriter(n) ==
    [ docs |-> << LongWord(n) >>, postings |-> [ t \in { LongWord(n) } |-> << 0 >> ] ]

InitNarrow ==
    /\ \E w \in { EmptyWriter, LongTermWriter(U16Limit - 1), LongTermWriter(U16Limit) } :
         /\ docs = w.docs
         /\ postings = w.postings
    /\ moved = FALSE
    /\ buf = <<>>
    /\ wres = None
    /\ index = None
    /\ rres = None
    /\ sres = None
    /\ call = [ op |-> "none", arg |-> <<>> ]
    /\ PipeIdle

\* `u32::try_from(v).context(field)?` and the write_all that follows it
TryWriteU32(v, field) ==
    /\ docs = <<>>
    /\ LET r == try_write_u32(v, field)
       IN  /\ buf' = r.bytes
           /\ wres' = [ status |-> r.status, err |-> r.err ]
    /\ call' = [ op |-> "try_write_u32", arg |-> v, field |-> field ]
    /\ UNCHANGED << docs, postings, moved, index, rres, sres >>
    /\ UNCHANGED pipeVars

\* `u16::try_from(v).context(UnableToDownCastTermLength)?` and its write_all
TryWriteU16(v) ==
    /\ docs = <<>>
    /\ LET r == try_write_u16(v, "UnableToDownCastTermLength")
       IN  /\ buf' = r.bytes
           /\ wres' = [ status |-> r.status, err |-> r.err ]
    /\ call' = [ op |-> "try_write_u16", arg |-> v, field |-> "UnableToDownCastTermLength" ]
    /\ UNCHANGED << docs, postings, moved, index, rres, sres >>
    /\ UNCHANGED pipeVars

NextNarrow ==
    \/ \E v \in EdgeValues, f \in U32Fields : TryWriteU32(v, f)
    \/ \E v \in EdgeValues : TryWriteU16(v)
    \/ Write

SpecNarrow == InitNarrow /\ [][NextNarrow]_vars

BE32(n) == << (n \div 16777216) % 256, (n \div 65536) % 256, (n \div 256) % 256, n % 256 >>

BE16(n) == << (n \div 256) % 256, n % 256 >>

RECURSIVE LayoutIds(_)
LayoutIds(ids) ==
    IF ids = <<>> THEN <<>> ELSE BE32(ids[1]) \o LayoutIds(Tail(ids))

RECURSIVE LayoutTerms(_, _)
LayoutTerms(p, order) ==
    IF order = <<>> THEN <<>>
    ELSE BE16(Len(order[1])) \o order[1] \o BE32(Len(p[order[1]]))
         \o LayoutIds(p[order[1]]) \o LayoutTerms(p, Tail(order))

RECURSIVE LayoutDocs(_)
LayoutDocs(d) ==
    IF d = <<>> THEN <<>>
    ELSE BE32(Len(d[1])) \o d[1] \o LayoutDocs(Tail(d))

Layout(p, d, order) ==
    BE32(Len(order)) \o LayoutTerms(p, order) \o BE32(Len(d)) \o LayoutDocs(d)

EightZeroBytes == << 0, 0, 0, 0, 0, 0, 0, 0 >>

\* the buffer of tests::write_with_one_doc_and_one_term, for the document "a"
OneDocOneTerm ==
    << 0, 0, 0, 1,  0, 1,  97,  0, 0, 0, 1,  0, 0, 0, 0,
       0, 0, 0, 1,  0, 0, 0, 1,  97 >>

C14_IdsBelowDocCount ==
    /\ \A t \in DOMAIN postings :
         \A i \in 1..Len(postings[t]) :
            postings[t][i] \in 0..(Len(docs) - 1)
    /\ index.status = "from" =>
         \A t \in DOMAIN index.postings :
            \A i \in 1..Len(index.postings[t]) :
               index.postings[t][i] \in 0..(Len(index.docs) - 1)

\* An Index converted from a writer of three documents, a term of which is
\* in all three.
C14_Witness ==
    /\ index.status = "from"
    /\ Len(index.docs) = 3
    /\ \E t \in DOMAIN index.postings : Len(index.postings[t]) = 3

\* the writer or the output changes in this step: an IndexWriter::add of
\* the accumulation or the write of the index
AddOrWriteStep ==
    \/ docs' # docs
    \/ postings' # postings
    \/ buf' # buf
    \/ wres' # wres

AllWorkersEnded == \A w \in Workers : wpc[w] = "done"

\* C15: join barrier.  While main is still enumerating no worker has been
\* started; once main is past the joins every worker has ended and has been
\* joined; and every step that adds to the writer or writes the index is
\* taken when every worker has ended and has been joined.
C15_JoinBarrier ==
    /\ [](mainpc = "enumerate" => \A w \in Workers : wpc[w] = "unspawned")
    /\ [](mainpc \in { "accumulate", "persist", "done" } =>
            (AllWorkersEnded /\ joined = NumWorkers))
    /\ [][AddOrWriteStep => (AllWorkersEnded /\ joined = NumWorkers)]_vars
    /\ [][(mainpc = "enumerate" /\ mainpc' # "enumerate") =>
            (\A w \in Workers : wpc[w] = "unspawned" /\ wpc'[w] = "unspawned")]_vars

\* The build is past the barrier and has added two documents to the writer.
C15_Witness ==
    /\ mainpc = "persist"
    /\ Len(docs) = 2
    /\ AllWorkersEnded

\* every extraction call returns: no file makes mail_content panic
EveryExtractionReturns == \A i \in 1..Len(files) : files[i].kind # "read_fail"

Live(w) == wpc[w] \in { "claim", "extract", "push", "take", "analyze" }

\* the worker is at a lock() of a mutex another thread holds
Blocked(w) ==
    /\ wpc[w] \in DOMAIN Needs
    /\ mutex[Needs[wpc[w]]] \notin { 0, w }

AllLiveWorkersBlocked ==
    /\ \E w \in Workers : Live(w)
    /\ \A w \in Workers : Live(w) => Blocked(w)

\* C16: termination without deadlock.  Under fair scheduling a build whose
\* extraction calls all return gets every worker out of both loops and
\* ended, every join returned and main to the persist stage; and in no
\* reachable state are all live workers waiting for a mutex.
C16_Termination ==
    /\ EveryExtractionReturns =>
         <>(/\ \A w \in Workers : wpc[w] = "done"
            /\ joined = NumWorkers
            /\ mainpc \in { "persist", "done" })
    /\ [](~AllLiveWorkersBlocked)
    /\ [](\A w \in Workers : Cardinality({ m \in Mutexes : mutex[m] = w }) <= 1)

\* A build of two readable files has run to its end.
C16_Witness ==
    /\ EveryExtractionReturns
    /\ mainpc = "done"
    /\ \A w \in Workers : wpc[w] = "done"
    /\ Len(docs) = 2

\* the terms that stand for the word t whatever its letter case
SameWord(t) == { k \in DOMAIN postings : to_lowercase(k) = to_lowercase(t) }

\* how many postings the document d has under the word t
PostingsOf(d, t) ==
    Cardinality({ p \in UNION { { <<k, i>> : i \in 1..Len(postings[k]) } : k \in SameWord(t) } :
                    postings[p[1]][p[2]] = d })

\* C17: one posting per document per term.  Every posting list is strictly
\* increasing, so has no duplicate; and a document has exactly one posting
\* for each word it contains, however often and in whatever letter case the
\* word occurs in it, and none for any other term.
C17_OnePostingPerDoc ==
    /\ \A t \in DOMAIN postings :
         /\ NoDuplicates(postings[t])
         /\ Ascending(postings[t])
    /\ \A d \in 1..Len(docs) :
         LET words == unicode_words(docs[d])
         IN  /\ \A i \in 1..Len(words) : PostingsOf(d - 1, words[i]) = 1
             /\ \A t \in DOMAIN postings :
                  (\E i \in 1..Len(postings[t]) : postings[t][i] = d - 1) =>
                     \E i \in 1..Len(words) : to_lowercase(words[i]) = t

\* Documents "a A" and "b a b" were both added: a word in two letter
\* cases in one document, a word twice in the other.
C17_Witness ==
    /\ call.op = "add"
    /\ \E i, j \in 1..Len(docs) :
         /\ docs[i] = <<97, 32, 65>>
         /\ docs[j] = <<98, 32, 97, 32, 98>>
    /\ Len(postings[<<97>>]) >= 2

\* the list of term t before the step, empty when the term is new
ListBefore(t) == IF t \in DOMAIN postings THEN postings[t] ELSE <<>>

\* C18: append-only frame of add.  A step that adds a document leaves every
\* stored document at its position, keeps every term, leaves the list of
\* every term that is not a word of the added document as it was, and
\* extends the list of every term that is one by exactly one element at its
\* end.
C18_AddFrame ==
    [][docs' # docs =>
         /\ Len(docs') = Len(docs) + 1
         /\ \A i \in 1..Len(docs) : docs'[i] = docs[i]
         /\ DOMAIN postings \subseteq DOMAIN postings'
         /\ LET words == unicode_words(docs'[Len(docs')])
                terms == { to_lowercase(words[i]) : i \in 1..Len(words) }
            IN  \A t \in DOMAIN postings' :
                   IF t \in terms
                   THEN /\ Len(postings'[t]) = Len(ListBefore(t)) + 1
                        /\ SubSeq(postings'[t], 1, Len(ListBefore(t))) = ListBefore(t)
                   ELSE /\ t \in DOMAIN postings
                        /\ postings'[t] = postings[t]
    ]_vars

\* A third document was added; one term is in all three documents and
\* another still has the list the first add gave it.
C18_Witness ==
    /\ call.op = "add"
    /\ Len(docs) = 3
    /\ \E t \in DOMAIN postings : Len(postings[t]) = 3
    /\ \E t \in DOMAIN postings : postings[t] = << 0 >>

NoWorkerPanicked == \A w \in Workers : wpc[w] # "panicked"

\* C19: queues at the barrier.  When every worker has exited, the path list
\* and the content queue are empty, no mutex is held and every extracted
\* content has been analyzed (it is in the analyzed queue or already in the
\* writer).  Before that, with no worker panic, a path still to claim or a
\* content still to pop always has a worker alive, or still to be started,
\* that will take it, also after other workers have exited.
C19_QueuesDrained ==
    /\ AllWorkersEnded =>
         /\ paths = <<>>
         /\ content_queue = <<>>
         /\ \A m \in Mutexes : mutex[m] = 0
         /\ Len(analyzed_queue) + Len(docs) = Len(Extracted)
    /\ (NoWorkerPanicked /\ mainpc # "enumerate" /\ paths # <<>>) =>
            \E w \in Workers : wpc[w] \in { "unspawned", "claim", "extract", "push" }
    /\ (NoWorkerPanicked /\ content_queue # <<>>) =>
            \E w \in Workers : Live(w) \/ wpc[w] = "unspawned"

\* A worker has exited and the content queue holds a content: it was pushed
\* after that worker found the queue empty.
C19_Witness ==
    /\ NoWorkerPanicked
    /\ \E w \in Workers : wpc[w] = "done"
    /\ content_queue # <<>>

\* the words of the query, lowercased, in query order, repeats included
QueryWords(query) ==
    LET w == unicode_words(query)
    IN  [ i \in 1..Len(w) |-> to_lowercase(w[i]) ]

\* the position in the query of the first word whose list holds document d
FirstHit(idx, query, d) ==
    LET w    == QueryWords(query)
        hits == { k \in 1..Len(w) :
                    /\ w[k] \in DOMAIN idx.postings
                    /\ d \in Range(idx.postings[w[k]]) }
    IN  CHOOSE k \in hits : \A j \in hits : k <= j

\* C20: search is a function of the documents, the term-to-list mapping and
\* the query.  Its result holds each matching document once, ordered by the
\* position in the query of the first word that matches the document and,
\* among documents first matched by the same word, by ascending identifier;
\* nothing else (no order of the terms in the mapping) enters the result.
C20_SearchOrder ==
    (call.op = "search" /\ sres.status = "ok") =>
        /\ NoDuplicates(sres.ids)
        /\ Range(sres.ids) = Matching(index, QueryTerms(call.arg))
        /\ \A i, j \in 1..Len(sres.ids) : i < j =>
              LET a == FirstHit(index, call.arg, sres.ids[i])
                  b == FirstHit(index, call.arg, sres.ids[j])
              IN  \/ a < b
                  \/ (a = b /\ sres.ids[i] < sres.ids[j])

\* A search with two matching words whose result is not in ascending
\* identifier order: the document of the first word comes first.
C20_Witness ==
    /\ call.op = "search"
    /\ sres.status = "ok"
    /\ Cardinality(QueryTerms(call.arg) \cap DOMAIN index.postings) = 2
    /\ \E i \in 1..(Len(sres.ids) - 1) : sres.ids[i] > sres.ids[i + 1]

====
